---- MODULE Spec2Model ----
(***************************************************************************)
(* Memory Service (memory_mcp.py): an in-memory key -> entry dictionary,   *)
(* a JSON snapshot file rewritten on every mutation, and a JSON-lines      *)
(* operation log.                                                          *)
(*                                                                         *)
(* Modelling conventions                                                   *)
(*  - a Python dict is a sequence of [key, entry] records: dicts keep      *)
(*    insertion order, and list_memory / the "Available:" messages /       *)
(*    json.dump all observe that order;                                    *)
(*  - an optional value (Python None or a value) is <<>> or <<v>>;         *)
(*  - datetime.now() is the variable now, counted in ticks; the second a   *)
(*    tick lies in is now \div TicksPerSec.  The clock never runs          *)
(*    backwards;                                                           *)
(*  - a key "memory_<second>" is <<second, 0>> and "memory_<second>_NN"    *)
(*    is <<second, NN>>;                                                   *)
(*  - the handlers' "except Exception" branches are not reachable from     *)
(*    stores the program wrote itself (log_operation and                   *)
(*    save_memory_to_file catch their own errors); LogRaises says so for   *)
(*    log_operation, and the handlers are written against it;              *)
(*  - one line of the operation log is written whole or not at all.        *)
(***************************************************************************)
EXTENDS Integers, Sequences, FiniteSets, TLC

\* ---- bounds of the model ----
\* tool calls, info requests and restarts in one behaviour
MaxSteps == 3
\* the last tick of the clock, and the ticks in one second
MaxTime == 1
TicksPerSec == 1
\* failed snapshot writes plus failed log appends in one behaviour
MaxFaults == 1

Contents == {"a", "bb"}
Secs == 0..(MaxTime \div TicksPerSec)
\* every key create can assign within the bounds
KeyArgs == Secs \X (0..MaxSteps)

VARIABLES
    memory_store,   \* the dict memory_store
    file,           \* MEMORY_FILE: [state, data]
    log,            \* LOG_FILE: the sequence of lines written
    now,            \* the clock read by datetime.now()
    calls,          \* number of tool calls made so far
    logFailures,    \* number of log appends that failed so far
    saveFailures,   \* number of snapshot writes that failed so far
    restarts,       \* number of process restarts so far
    call,           \* the last call: [op, key, content, readOk], key as used by the handler
    ret,            \* the string the last call returned (for a restart, the line load prints)
    hist,           \* per key, the last mutation made in this process lifetime
    saveAttempts,   \* number of calls of save_memory_to_file so far
    durable,        \* the dict as it was at the last snapshot write that succeeded, if any
    trace,          \* the effects of the last tool call, in the order of its statements
    infos           \* number of requests of the resource memory://info so far

vars == <<memory_store, file, log, now, calls, logFailures, saveFailures, restarts, call, ret,
          hist, saveAttempts, durable, trace, infos>>

\* ---- Python values ----
None == <<>>
Some(v) == <<v>>

\* ---- dict operations on a sequence of [key, entry] ----
Has(d, k) == \E i \in 1..Len(d) : d[i].key = k
Get(d, k) == d[CHOOSE i \in 1..Len(d) : d[i].key = k].entry
Put(d, k, e) ==
    IF Has(d, k)
    THEN [i \in 1..Len(d) |-> IF d[i].key = k THEN [key |-> k, entry |-> e] ELSE d[i]]
    ELSE Append(d, [key |-> k, entry |-> e])
\* a delete that removes the oldest entry instead of the one asked for
Del_First(d, k) == IF Len(d) > 0 THEN Tail(d) ELSE d
Del(d, k) == SelectSeq(d, LAMBDA x : x.key # k)
KeysOf(d) == [i \in 1..Len(d) |-> d[i].key]
KeySet(d) == {d[i].key : i \in 1..Len(d)}

\* ---- load_memory_from_file ----
\* a load that takes what the file holds although reading it failed
LoadMemoryFromFile_IgnoresReadFailure(f, readOk) == f.data
LoadMemoryFromFile(f, readOk) ==
    IF f.state = "ok" /\ readOk THEN f.data ELSE <<>>

\* ---- save_memory_to_file ----
\* "ok": the whole dict is written; "open_failed": open() raises and the file
\* is left as it was; "write_failed": open(..., 'w') has truncated the file and
\* the dump raises, leaving text that does not parse.
SaveOutcomes == {"ok", "open_failed", "write_failed"}
SaveResult(o) == o = "ok"
\* a write that appends the newest entry to what the file already holds
SavedFile_Append(f, d, o) ==
    CASE o = "ok" -> [state |-> "ok",
                      data |-> IF Len(d) > 0 THEN f.data \o <<d[Len(d)]>> ELSE f.data]
      [] o = "open_failed" -> f
      [] o = "write_failed" -> [state |-> "corrupt", data |-> <<>>]
SavedFile(f, d, o) ==
    CASE o = "ok" -> [state |-> "ok", data |-> d]
      [] o = "open_failed" -> f
      [] o = "write_failed" -> [state |-> "corrupt", data |-> <<>>]

\* ---- generate_auto_key and the collision loop of create_memory ----
GenerateAutoKey(t) == <<t \div TicksPerSec, 0>>

\* a create without the collision loop
ProbeKey_NoRetry(d, original_key, key, counter) == key
RECURSIVE ProbeKey(_, _, _, _)
ProbeKey(d, original_key, key, counter) ==
    IF Has(d, key)
    THEN ProbeKey(d, original_key, <<original_key[1], counter>>, counter + 1)
    ELSE key

AssignKey(d, t) == ProbeKey(d, GenerateAutoKey(t), GenerateAutoKey(t), 1)

\* ---- create_memory_entry ----
\* an entry whose two timestamps come from two clock readings
CreateMemoryEntry_TwoReadings(content, t) ==
    [content |-> content, created_at |-> t, updated_at |-> t + 1]
CreateMemoryEntry(content, t) ==
    [content |-> content, created_at |-> t, updated_at |-> t]

\* ---- the entry update_memory builds ----
\* an update that stamps the entry as newly created
UpdatedEntry_Recreated(existing_entry, content, t) ==
    [content |-> content, created_at |-> t, updated_at |-> t]
\* an update that writes the time into the wrong field
UpdatedEntry_WrongField(existing_entry, content, t) ==
    [content |-> content, created_at |-> t, updated_at |-> existing_entry.updated_at]
UpdatedEntry(existing_entry, content, t) ==
    [content |-> content, created_at |-> existing_entry.created_at, updated_at |-> t]

\* ---- log_operation ----
\* a record with the two snapshots in each other's place
LogEntry_Swapped(t, id, operation, key, before, after, success, error, metadata) ==
    [timestamp |-> t, operation_id |-> id, operation |-> operation, key |-> key,
     before |-> after, after |-> before, success |-> success, error |-> error,
     metadata |-> metadata]
LogEntry(t, id, operation, key, before, after, success, error, metadata) ==
    [timestamp |-> t, operation_id |-> id, operation |-> operation, key |-> key,
     before |-> before, after |-> after, success |-> success, error |-> error,
     metadata |-> metadata]
\* a handler that logs its call twice
LogOperation_Twice(l, rec, appendOk) ==
    IF appendOk THEN Append(Append(l, rec), rec) ELSE l
\* a log file opened for writing instead of appending
LogOperation_Overwrite(l, rec, appendOk) == IF appendOk THEN <<rec>> ELSE l
LogOperation(l, rec, appendOk) == IF appendOk THEN Append(l, rec) ELSE l

NoMetadata == [none |-> TRUE]

\* ---- the order list_memory shows: sorted(keys, created_at, reverse=True) ----
InsertDesc(s, k, d) ==
    LET c == Get(d, k).created_at
        later == {i \in 1..Len(s) : Get(d, s[i]).created_at < c}
        p == IF later = {} THEN Len(s) + 1
             ELSE CHOOSE i \in later : \A j \in later : i <= j
    IN SubSeq(s, 1, p - 1) \o <<k>> \o SubSeq(s, p, Len(s))

RECURSIVE SortedKeysFrom(_, _, _)
SortedKeysFrom(d, i, acc) ==
    IF i > Len(d) THEN acc
    ELSE SortedKeysFrom(d, i + 1, InsertDesc(acc, d[i].key, d))

\* a listing in dict order, without the sort
SortedKeys_Unsorted(d) == KeysOf(d)
SortedKeys(d) == SortedKeysFrom(d, 1, <<>>)

\* ---- the strings the tools return ----
Reply(text, key, keys, items, entry) ==
    [text |-> text, key |-> key, keys |-> keys, items |-> items, entry |-> entry]

ListItem(d, k) ==
    [key |-> k, content |-> Get(d, k).content,
     created |-> Get(d, k).created_at \div TicksPerSec,
     chars |-> Len(Get(d, k).content)]

ListReply(d) ==
    IF Len(d) > 0
    THEN Reply("N memory entries:", None, <<>>,
               [i \in 1..Len(d) |-> ListItem(d, SortedKeys(d)[i])], None)
    ELSE Reply("No user info saved yet.", None, <<>>, <<>>, None)

\* a key inventory that misses the first key of the dict
NotFoundReply_DropsKey(d, k, emptyText) ==
    IF Len(d) > 0
    THEN Reply("Key not found. Available:", Some(k), Tail(KeysOf(d)), <<>>, None)
    ELSE Reply(emptyText, Some(k), <<>>, <<>>, None)
NotFoundReply(d, k, emptyText) ==
    IF Len(d) > 0
    THEN Reply("Key not found. Available:", Some(k), KeysOf(d), <<>>, None)
    ELSE Reply(emptyText, Some(k), <<>>, <<>>, None)

\* a create that reports full success whatever the snapshot write did
CreateReply_AlwaysSaved(saved, key) ==
    Reply("Saved:", Some(key), <<>>, <<>>, None)
\* "Saved: '<key>'" or "Saved in memory, file write failed."
CreateReply(saved, key) ==
    IF saved
    THEN Reply("Saved:", Some(key), <<>>, <<>>, None)
    ELSE Reply("Saved in memory, file write failed.", None, <<>>, <<>>, None)

\* "Updated: '<key>'" or "Updated in memory, file write failed."
UpdateReply(saved, key) ==
    IF saved
    THEN Reply("Updated:", Some(key), <<>>, <<>>, None)
    ELSE Reply("Updated in memory, file write failed.", None, <<>>, <<>>, None)

\* "Deleted '<key>'" or "Deleted '<key>', file write failed."
DeleteReply(saved, key) ==
    IF saved
    THEN Reply("Deleted", Some(key), <<>>, <<>>, None)
    ELSE Reply("Deleted, file write failed.", Some(key), <<>>, <<>>, None)

\* the key, the content, the two timestamps and the length shown by read_memory
ReadReply(key, entry) ==
    Reply("Key:", Some(key), <<>>, <<[chars |-> Len(entry.content)]>>, Some(entry))

\* ---- the dict after update_memory(key, content) at time t ----
\* an update that inserts the key when it is absent
UpdateStore_Upsert(d, key, content, t) ==
    IF ~Has(d, key) THEN Put(d, key, CreateMemoryEntry(content, t))
    ELSE Put(d, key, UpdatedEntry(Get(d, key), content, t))
UpdateStore(d, key, content, t) ==
    IF ~Has(d, key) THEN d
    ELSE Put(d, key, UpdatedEntry(Get(d, key), content, t))

\* ---- hist: the last mutation of each key in this process lifetime ----
Remember(h, k, kind, content, saved) ==
    [x \in (DOMAIN h) \cup {k} |->
        IF x = k THEN [kind |-> kind, content |-> content, saved |-> saved] ELSE h[x]]

\* the keys a caller passes: every key the dict or the snapshot holds, every
\* key mutated in this process lifetime, and the key the next create would
\* assign, which stands for the keys that were never assigned (the handlers
\* only test a key for membership)
CallerKeys ==
    (KeySet(memory_store) \cup KeySet(file.data) \cup DOMAIN hist
        \cup {AssignKey(memory_store, now)}) \cap KeyArgs

\* ---- does log_operation raise to its caller? ----
\* the whole body is inside try / except Exception, which prints and returns;
\* without that clause a failed append would leave log_operation as an exception
LogRaises_Uncaught(appendOk) == ~appendOk
LogRaises(appendOk) == FALSE

\* what the caller gets when an exception leaves a handler
RaisedReply == Reply("Error executing tool", None, <<>>, <<>>, None)

\* ---- get_memory_info ----
RECURSIVE TotalChars(_, _)
TotalChars(d, i) ==
    IF i > Len(d) THEN 0 ELSE Len(d[i].entry.content) + TotalChars(d, i + 1)

InfoReply(d) ==
    Reply("User Memory System Info:", None, <<>>,
          <<[entries |-> Len(d), total_chars |-> TotalChars(d, 1)]>>, None)

\* ---- the line load_memory_from_file prints ----
LoadReply(f, readOk) ==
    CASE f.state = "missing" -> Reply("Created new memory store.", None, <<>>, <<>>, None)
      [] f.state = "ok" /\ readOk ->
            Reply("Loaded N memory entries.", None, <<>>, <<[entries |-> Len(f.data)]>>, None)
      [] OTHER -> Reply("Failed to load memory file.", None, <<>>, <<>>, None)

\* ---- what one run of a handler does, from the current state ----
\* store, file, ret: the dict, the snapshot file and the returned string after
\* the call; rec: the record handed to log_operation; attempts: calls of
\* save_memory_to_file; saved: its result; steps: the statements with an
\* effect, in program order; mut: the mutation made, if any.
Outcome(store, f, r, rec, attempts, saved, steps, mut) ==
    [store |-> store, file |-> f, ret |-> r, rec |-> rec, attempts |-> attempts,
     saved |-> saved, steps |-> steps, mut |-> mut]

Mutation(key, kind, content) == [key |-> key, kind |-> kind, content |-> content]

\* list_memory()
ListOutcome(appendOk) ==
    LET rec == LogEntry(now, calls, "list", None, None, None, TRUE, None,
                        [entry_count |-> Len(memory_store)])
    IN IF LogRaises(appendOk)
       THEN Outcome(memory_store, file, RaisedReply, rec, 0, TRUE, <<"log">>, None)
       ELSE Outcome(memory_store, file, ListReply(memory_store), rec, 0, TRUE, <<"log">>, None)

\* create_memory(content); d is the time that passes between the clock reading
\* of generate_auto_key and the one of create_memory_entry
CreateOutcome(content, d, o, appendOk) ==
    LET key == AssignKey(memory_store, now)
        new_entry == CreateMemoryEntry(content, now + d)
        store == Put(memory_store, key, new_entry)
        rec == LogEntry(now + d, calls, "create", Some(key), None, Some(new_entry),
                        TRUE, None,
                        [content_length |-> Len(content), auto_generated_key |-> key])
        mut == Some(Mutation(key, "create", content))
    IN IF LogRaises(appendOk)
       THEN Outcome(store, file, RaisedReply, rec, 0, TRUE, <<"mutate", "log">>, mut)
       ELSE Outcome(store, SavedFile(file, store, o), CreateReply(SaveResult(o), key), rec,
                    1, SaveResult(o), <<"mutate", "log", "save">>, mut)

\* update_memory(key, content)
UpdateOutcome(key, content, o, appendOk) ==
    LET store == UpdateStore(memory_store, key, content, now)
    IN IF ~Has(memory_store, key)
       THEN LET rec == LogEntry(now, calls, "update", Some(key), None, None, FALSE,
                                Some("Key not found"), NoMetadata)
            IN IF LogRaises(appendOk)
               THEN Outcome(store, file, RaisedReply, rec, 0, TRUE, <<"log">>, None)
               ELSE Outcome(store, file,
                            NotFoundReply(memory_store, key,
                                          "Key not found. No memory data exists."),
                            rec, 0, TRUE, <<"log">>, None)
       ELSE LET existing_entry == Get(memory_store, key)
                updated_entry == UpdatedEntry(existing_entry, content, now)
                rec == LogEntry(now, calls, "update", Some(key), Some(existing_entry),
                                Some(updated_entry), TRUE, None,
                                [old_content_length |-> Len(existing_entry.content),
                                 new_content_length |-> Len(content),
                                 content_changed |-> existing_entry.content # content])
                mut == Some(Mutation(key, "update", content))
            IN IF LogRaises(appendOk)
               THEN Outcome(store, file, RaisedReply, rec, 0, TRUE, <<"mutate", "log">>, mut)
               ELSE Outcome(store, SavedFile(file, store, o), UpdateReply(SaveResult(o), key),
                            rec, 1, SaveResult(o), <<"mutate", "log", "save">>, mut)

\* a read that rewrites the snapshot file
ReadOutcome_Rewrites(key, appendOk) ==
    Outcome(memory_store, SavedFile(file, memory_store, "ok"),
            IF Has(memory_store, key) THEN ReadReply(key, Get(memory_store, key))
            ELSE NotFoundReply(memory_store, key, "Key not found. No memory data."),
            LogEntry(now, calls, "read", Some(key), None, None, Has(memory_store, key),
                     None, NoMetadata),
            1, TRUE, <<"log", "save">>, None)
\* read_memory(key)
ReadOutcome(key, appendOk) ==
    IF Has(memory_store, key)
    THEN LET entry == Get(memory_store, key)
             rec == LogEntry(now, calls, "read", Some(key), None, None, TRUE, None,
                             [content_length |-> Len(entry.content)])
         IN IF LogRaises(appendOk)
            THEN Outcome(memory_store, file, RaisedReply, rec, 0, TRUE, <<"log">>, None)
            ELSE Outcome(memory_store, file, ReadReply(key, entry), rec, 0, TRUE,
                         <<"log">>, None)
    ELSE LET rec == LogEntry(now, calls, "read", Some(key), None, None, FALSE,
                             Some("Key not found"), NoMetadata)
         IN IF LogRaises(appendOk)
            THEN Outcome(memory_store, file, RaisedReply, rec, 0, TRUE, <<"log">>, None)
            ELSE Outcome(memory_store, file,
                         NotFoundReply(memory_store, key, "Key not found. No memory data."),
                         rec, 0, TRUE, <<"log">>, None)

\* delete_memory(key)
DeleteOutcome(key, o, appendOk) ==
    IF Has(memory_store, key)
    THEN LET deleted_entry == Get(memory_store, key)
             store == Del(memory_store, key)
             rec == LogEntry(now, calls, "delete", Some(key), Some(deleted_entry), None,
                             TRUE, None,
                             [deleted_content_length |-> Len(deleted_entry.content)])
             mut == Some(Mutation(key, "delete", ""))
         IN IF LogRaises(appendOk)
            THEN Outcome(store, file, RaisedReply, rec, 0, TRUE, <<"mutate", "log">>, mut)
            ELSE Outcome(store, SavedFile(file, store, o), DeleteReply(SaveResult(o), key),
                         rec, 1, SaveResult(o), <<"mutate", "log", "save">>, mut)
    ELSE LET rec == LogEntry(now, calls, "delete", Some(key), None, None, FALSE,
                             Some("Key not found"), NoMetadata)
         IN IF LogRaises(appendOk)
            THEN Outcome(memory_store, file, RaisedReply, rec, 0, TRUE, <<"log">>, None)
            ELSE Outcome(memory_store, file,
                         NotFoundReply(memory_store, key, "Key not found. No memory data."),
                         rec, 0, TRUE, <<"log">>, None)

Init ==
    /\ memory_store = <<>>
    /\ file = [state |-> "missing", data |-> <<>>]
    /\ log = <<>>
    /\ now = 0
    /\ calls = 0
    /\ logFailures = 0
    /\ saveFailures = 0
    /\ restarts = 0
    /\ call = [op |-> "start", key |-> None, content |-> None, readOk |-> TRUE]
    /\ ret = LoadReply(file, TRUE)
    /\ hist = <<>>
    /\ saveAttempts = 0
    /\ durable = None
    /\ trace = <<>>
    /\ infos = 0

\* the clock advances between and during calls
Tick ==
    /\ now < MaxTime
    /\ now' = now + 1
    /\ UNCHANGED <<memory_store, file, log, calls, logFailures, saveFailures, restarts, call,
                   ret, hist, saveAttempts, durable, trace, infos>>

Logged(rec, appendOk) ==
    /\ ~appendOk => logFailures + saveFailures < MaxFaults
    /\ log' = LogOperation(log, rec, appendOk)
    /\ logFailures' = IF appendOk THEN logFailures ELSE logFailures + 1
    /\ calls' = calls + 1

\* a behaviour has room for one more call or restart
Budget == calls + restarts + infos < MaxSteps

\* the state after a tool call with the outcome out
Apply(out, appendOk) ==
    /\ Logged(out.rec, appendOk)
    /\ (out.attempts > 0 /\ ~out.saved) => logFailures' + saveFailures < MaxFaults
    /\ memory_store' = out.store
    /\ file' = out.file
    /\ ret' = out.ret
    /\ trace' = out.steps
    /\ saveAttempts' = saveAttempts + out.attempts
    /\ saveFailures' = IF out.attempts > 0 /\ ~out.saved THEN saveFailures + 1
                       ELSE saveFailures
    /\ durable' = IF out.attempts > 0 /\ out.saved THEN Some(out.store) ELSE durable
    /\ hist' = IF out.mut = None THEN hist
               ELSE Remember(hist, out.mut[1].key, out.mut[1].kind, out.mut[1].content,
                             out.saved)
    /\ UNCHANGED <<restarts, infos>>

ListMemory(appendOk) ==
    /\ Budget
    /\ Apply(ListOutcome(appendOk), appendOk)
    /\ call' = [op |-> "list", key |-> None, content |-> None, readOk |-> TRUE]
    /\ UNCHANGED now

CreateMemory(content, d, o, appendOk) ==
    /\ Budget
    /\ now + d <= MaxTime
    /\ AssignKey(memory_store, now) \in KeyArgs
    /\ Apply(CreateOutcome(content, d, o, appendOk), appendOk)
    /\ call' = [op |-> "create", key |-> Some(AssignKey(memory_store, now)),
                content |-> Some(content), readOk |-> TRUE]
    /\ now' = now + d

UpdateMemory(key, content, o, appendOk) ==
    /\ Budget
    /\ ~Has(memory_store, key) => o = "ok"
    /\ Apply(UpdateOutcome(key, content, o, appendOk), appendOk)
    /\ call' = [op |-> "update", key |-> Some(key), content |-> Some(content),
                readOk |-> TRUE]
    /\ UNCHANGED now

ReadMemory(key, appendOk) ==
    /\ Budget
    /\ Apply(ReadOutcome(key, appendOk), appendOk)
    /\ call' = [op |-> "read", key |-> Some(key), content |-> None, readOk |-> TRUE]
    /\ UNCHANGED now

DeleteMemory(key, o, appendOk) ==
    /\ Budget
    /\ ~Has(memory_store, key) => o = "ok"
    /\ Apply(DeleteOutcome(key, o, appendOk), appendOk)
    /\ call' = [op |-> "delete", key |-> Some(key), content |-> None, readOk |-> TRUE]
    /\ UNCHANGED now

\* the resource memory://info: get_memory_info() reads the dict and logs nothing
GetMemoryInfo ==
    /\ Budget
    /\ infos' = infos + 1
    /\ call' = [op |-> "info", key |-> None, content |-> None, readOk |-> TRUE]
    /\ ret' = InfoReply(memory_store)
    /\ trace' = <<>>
    /\ UNCHANGED <<memory_store, file, log, now, calls, logFailures, saveFailures, restarts,
                   hist, saveAttempts, durable>>

\* the process ends and is started again: memory_store = {} at import, then
\* load_memory_from_file() before the server runs
Restart(readOk) ==
    /\ Budget
    /\ ~readOk => file.state = "ok"
    /\ restarts' = restarts + 1
    /\ memory_store' = LoadMemoryFromFile(file, readOk)
    /\ call' = [op |-> "restart", key |-> None, content |-> None, readOk |-> readOk]
    /\ ret' = LoadReply(file, readOk)
    /\ hist' = <<>>
    /\ trace' = <<>>
    /\ UNCHANGED <<file, log, now, calls, logFailures, saveFailures, saveAttempts, durable,
                   infos>>

Next ==
    \/ Tick
    \/ \E appendOk \in BOOLEAN : ListMemory(appendOk)
    \/ \E content \in Contents, d \in 0..1, o \in SaveOutcomes, appendOk \in BOOLEAN :
          CreateMemory(content, d, o, appendOk)
    \/ \E key \in CallerKeys, content \in Contents, o \in SaveOutcomes, appendOk \in BOOLEAN :
          UpdateMemory(key, content, o, appendOk)
    \/ \E key \in CallerKeys, appendOk \in BOOLEAN : ReadMemory(key, appendOk)
    \/ \E key \in CallerKeys, o \in SaveOutcomes, appendOk \in BOOLEAN :
          DeleteMemory(key, o, appendOk)
    \/ GetMemoryInfo
    \/ \E readOk \in BOOLEAN : Restart(readOk)

Spec == Init /\ [][Next]_vars

TypeOK ==
    /\ now \in 0..MaxTime
    /\ calls \in 0..MaxSteps
    /\ file.state \in {"missing", "ok", "corrupt"}
    /\ KeySet(memory_store) \subseteq KeyArgs
    /\ DOMAIN hist \subseteq KeyArgs
    /\ saveAttempts \in 0..MaxSteps
    /\ saveFailures <= saveAttempts
    /\ durable = None \/ KeySet(durable[1]) \subseteq KeyArgs
    /\ Len(trace) <= 3
    /\ call.readOk \in BOOLEAN
    /\ infos \in 0..MaxSteps

\* ---- vocabulary of the properties ----
NotFoundTexts == {"Key not found. Available:", "Key not found. No memory data exists.",
                  "Key not found. No memory data."}
DegradedTexts == {"Saved in memory, file write failed.",
                  "Updated in memory, file write failed.",
                  "Deleted, file write failed."}
SuccessTexts == {"Saved:", "Updated:", "Deleted"}
Mutations == {"create", "update", "delete"}
IsToolCall == call.op \in {"list", "create", "read", "update", "delete"}
CallKey == call.key[1]
\* the records the last tool call wrote: log_operation numbers them by call
LastRecords == {i \in 1..Len(log) : IsToolCall /\ log[i].operation_id = calls - 1}
\* the last call changed the dict and its snapshot write failed
LastWriteFailed ==
    /\ call.op \in Mutations
    /\ CallKey \in DOMAIN hist
    /\ hist[CallKey].kind = call.op
    /\ ~hist[CallKey].saved
    /\ ret.text \notin NotFoundTexts

C2_ErrorsAreLoggedAsFailures ==
    \A i \in LastRecords :
        (ret.text \in NotFoundTexts \cup DegradedTexts)
            => (~log[i].success /\ log[i].error # None)

\* C3: a create, update or delete whose snapshot write failed is still applied
\* to the dict (the created entry and the updated content are there, the
\* deleted key is gone) for as long as the process lives and the key is not
\* mutated again, and the call returned a degraded message, not the message of
\* full success.
C3_FailedWriteKeepsMutation ==
    /\ \A k \in DOMAIN hist :
          ~hist[k].saved =>
             IF hist[k].kind = "delete" THEN ~Has(memory_store, k)
             ELSE Has(memory_store, k) /\ Get(memory_store, k).content = hist[k].content
    /\ LastWriteFailed => (ret.text \in DegradedTexts /\ ret.text \notin SuccessTexts)

C3_Witness ==
    /\ LastWriteFailed
    /\ call.op = "create"
    /\ Has(memory_store, CallKey)
    /\ file.state # "ok"

\* C4: a read of a key that create assigned, with no update or delete of the
\* key in between, returns the created content with created_at = updated_at.
C4_ReadAfterCreate ==
    (call.op = "read" /\ CallKey \in DOMAIN hist /\ hist[CallKey].kind = "create")
        => /\ ret.text = "Key:"
           /\ ret.key = Some(CallKey)
           /\ ret.entry # None
           /\ ret.entry[1].content = hist[CallKey].content
           /\ ret.entry[1].created_at = ret.entry[1].updated_at

C4_Witness ==
    /\ call.op = "read" /\ CallKey \in DOMAIN hist /\ hist[CallKey].kind = "create"
    /\ ret.entry # None /\ ret.entry[1].content = "bb"
    /\ Len(memory_store) = 2

\* C5 (as claimed): every create returns the key it assigned, whether the
\* snapshot write succeeded or failed.
C5_CreateReturnsKey == call.op = "create" => ret.key = call.key

\* a step of the handler op (the primed call is the call of this step)
StepOf(op) == calls' = calls + 1 /\ call'.op = op
StepKey == call'.key[1]
OthersKept(k) ==
    \A x \in KeySet(memory_store) \ {k} :
        Has(memory_store', x) /\ Get(memory_store', x) = Get(memory_store, x)

\* C6: update(k, c2) of an existing key k keeps created_at of k, sets its
\* content to c2 and its updated_at to a time not earlier than the one before,
\* and changes neither another key's entry nor the keys of the dict.
C6_UpdateExisting ==
    [][ (StepOf("update") /\ Has(memory_store, StepKey)) =>
          /\ Has(memory_store', StepKey)
          /\ Get(memory_store', StepKey).created_at = Get(memory_store, StepKey).created_at
          /\ Get(memory_store', StepKey).content = call'.content[1]
          /\ Get(memory_store', StepKey).updated_at >= Get(memory_store, StepKey).updated_at
          /\ KeysOf(memory_store') = KeysOf(memory_store)
          /\ OthersKept(StepKey) ]_vars

C6_Witness ==
    /\ call.op = "update" /\ ret.text \in {"Updated:", "Updated in memory, file write failed."}
    /\ Len(memory_store) = 2
    /\ Get(memory_store, CallKey).updated_at > Get(memory_store, CallKey).created_at

\* C7: update(k, c) of a key k that is not in the dict returns a not-found
\* message and leaves the dict and the snapshot file as they were.
C7_UpdateAbsent ==
    [][ (StepOf("update") /\ ~Has(memory_store, StepKey)) =>
          /\ memory_store' = memory_store
          /\ file' = file
          /\ ret'.text \in NotFoundTexts
          /\ ret'.key = Some(StepKey) ]_vars

C7_Witness ==
    /\ call.op = "update" /\ ret.text = "Key not found. Available:"
    /\ ~Has(memory_store, CallKey)
    /\ Len(memory_store) > 0 /\ file.state = "ok"

\* C8: once delete(k) has removed k, and until a create assigns k again (in
\* the same process lifetime), k is not in the dict, read(k) returns not-found
\* and list() does not show k; the delete leaves every other entry as it was.
Deleted == {k \in DOMAIN hist : hist[k].kind = "delete"}
C8_DeletedStaysAbsent ==
    /\ \A k \in Deleted : ~Has(memory_store, k)
    /\ (call.op = "read" /\ CallKey \in Deleted)
          => (ret.text \in NotFoundTexts /\ ret.entry = None
              /\ \A i \in 1..Len(ret.keys) : ret.keys[i] # CallKey)
    /\ call.op = "list" =>
          \A k \in Deleted : \A i \in 1..Len(ret.items) : ret.items[i].key # k
C8_Delete ==
    [][ /\ C8_DeletedStaysAbsent'
        /\ (StepOf("delete") /\ Has(memory_store, StepKey)) =>
              /\ ~Has(memory_store', StepKey)
              /\ StepKey \in Deleted'
              /\ OthersKept(StepKey)
              /\ Len(memory_store') = Len(memory_store) - 1 ]_vars

C8_Witness ==
    /\ call.op = "read" /\ CallKey \in Deleted
    /\ ret.text \in NotFoundTexts
    /\ ~hist[CallKey].saved

\* C9: every entry of the dict has created_at <= updated_at in every reachable
\* state; no tool call changes the created_at of an entry it leaves in the
\* dict; and a restart brings back entries exactly as they were written.
EntriesOf(d) == {d[i] : i \in 1..Len(d)}
C9_Timestamps ==
    [][ /\ \A x \in EntriesOf(memory_store') : x.entry.created_at <= x.entry.updated_at
        /\ call'.op # "restart" =>
              \A k \in KeySet(memory_store) \cap KeySet(memory_store') :
                  Get(memory_store', k).created_at = Get(memory_store, k).created_at
        /\ call'.op = "restart" => EntriesOf(memory_store') \subseteq EntriesOf(file.data) ]_vars

C9_Witness ==
    /\ call.op = "restart"
    /\ \E x \in EntriesOf(memory_store) : x.entry.updated_at > x.entry.created_at

\* C10: the key create assigns is not in the dict before the call (when the
\* key of the current second is taken, it carries a collision suffix); the
\* entries already there are kept and the dict grows by exactly one entry.
C10_CreateNeverOverwrites ==
    [][ StepOf("create") =>
          /\ ~Has(memory_store, StepKey)
          /\ Has(memory_store, <<StepKey[1], 0>>) => StepKey[2] >= 1
          /\ Len(memory_store') = Len(memory_store) + 1
          /\ SubSeq(memory_store', 1, Len(memory_store)) = memory_store
          /\ memory_store'[Len(memory_store')].key = StepKey
          /\ memory_store'[Len(memory_store')].entry.content = call'.content[1] ]_vars

C10_Witness ==
    /\ call.op = "create" /\ CallKey[2] = 1
    /\ Has(memory_store, <<CallKey[1], 0>>) /\ Has(memory_store, CallKey)
    /\ Len(memory_store) = 2
\* ---- C11 ----
DistinctTimes(d) ==
    \A i, j \in 1..Len(d) : i # j => d[i].entry.created_at # d[j].entry.created_at
ListedKeys == {ret.items[i].key : i \in 1..Len(ret.items)}
\* C11: when the entries of the dict have distinct creation times, the listing
\* list_memory returns has one item per entry of the dict and no other item,
\* each with the content stored under its key, and the items are in strictly
\* descending order of the created_at of their entries.
C11_ListSortedDesc ==
    (call.op = "list" /\ DistinctTimes(memory_store)) =>
        /\ Len(ret.items) = Len(memory_store)
        /\ ListedKeys = KeySet(memory_store)
        /\ \A i \in 1..Len(ret.items) :
              /\ Has(memory_store, ret.items[i].key)
              /\ ret.items[i].content = Get(memory_store, ret.items[i].key).content
        /\ \A i, j \in 1..Len(ret.items) :
              i < j => Get(memory_store, ret.items[i].key).created_at
                         > Get(memory_store, ret.items[j].key).created_at
C11_Witness ==
    /\ call.op = "list"
    /\ DistinctTimes(memory_store)
    /\ Len(ret.items) = 2
    /\ ret.items[1].key # memory_store[1].key

\* ---- C12 ----
ListedInventory == {ret.keys[i] : i \in 1..Len(ret.keys)}
\* C12: a not-found answer is given only by read, update and delete for a key
\* that is not in the dict; when the dict has entries the answer lists every
\* key of the dict once and nothing else, and when the dict is empty it says
\* that no data exists and lists no key.
C12_NotFoundListsKeys ==
    ret.text \in NotFoundTexts =>
        /\ call.op \in {"read", "update", "delete"}
        /\ ~Has(memory_store, CallKey)
        /\ IF Len(memory_store) = 0
           THEN /\ ret.text \in {"Key not found. No memory data exists.",
                                 "Key not found. No memory data."}
                /\ ret.keys = <<>>
           ELSE /\ ret.text = "Key not found. Available:"
                /\ Len(ret.keys) = Len(memory_store)
                /\ ListedInventory = KeySet(memory_store)
C12_Witness ==
    /\ ret.text = "Key not found. Available:"
    /\ call.op = "delete"
    /\ Len(ret.keys) = 2
    /\ Len(memory_store) = 2

\* ---- C13 ----
LookupStep ==
    \/ StepOf("read")
    \/ StepOf("list")
    \/ call'.op = "info"
    \/ (StepOf("update") \/ StepOf("delete")) /\ ~Has(memory_store, StepKey)
MutatingStep ==
    \/ StepOf("create")
    \/ (StepOf("update") \/ StepOf("delete")) /\ Has(memory_store, StepKey)
\* C13: a read, a list, an info request and an update or delete of a key that
\* is not in the dict leave the dict and the snapshot file as they were and do
\* not call save_memory_to_file; a create, and an update or delete of a key
\* that is in the dict, call save_memory_to_file exactly once, whether that
\* call succeeds or fails.
C13_FrameAndSingleWrite ==
    [][ /\ LookupStep =>
              /\ memory_store' = memory_store
              /\ file' = file
              /\ saveAttempts' = saveAttempts
        /\ MutatingStep =>
              /\ saveAttempts' = saveAttempts + 1
              /\ saveFailures' = saveFailures + (IF ret'.text \in DegradedTexts THEN 1 ELSE 0)
      ]_vars
C13_Witness ==
    /\ call.op = "read"
    /\ calls = 2
    /\ saveAttempts = 1
    /\ saveFailures = 1
    /\ file.state = "corrupt"
    /\ Len(memory_store) = 1

\* ---- C14 ----
\* C14: when a create, update or delete answers that the change was saved, the
\* snapshot file holds exactly the dict as it is after the call, whatever the
\* file held before and whichever earlier snapshot writes had failed.
C14_SnapshotIsWholeStore ==
    (call.op \in Mutations /\ ret.text \in SuccessTexts) =>
        file = [state |-> "ok", data |-> memory_store]
C14_Witness ==
    /\ call.op = "create"
    /\ ret.text = "Saved:"
    /\ saveFailures = 1
    /\ Len(memory_store) = 2
    /\ \E k \in DOMAIN hist : ~hist[k].saved
    /\ file = [state |-> "ok", data |-> memory_store]

\* ---- C15 ----
LoadTexts == {"Loaded N memory entries.", "Created new memory store.",
              "Failed to load memory file."}
\* C15: a restart leaves the snapshot file as it is and makes the dict equal to
\* the content of the file when the file exists, is read and parses, and empty
\* otherwise; it always ends with one of the three lines load prints; the
\* content of a file that parses is the dict as it was at the last snapshot
\* write that succeeded, so a dict that is not empty after a restart is that
\* dict and holds nothing of the mutations made after that write.
C15_Load ==
    [][ restarts' = restarts + 1 =>
          /\ file' = file
          /\ call'.op = "restart"
          /\ memory_store' = IF file.state = "ok" /\ call'.readOk THEN file.data ELSE <<>>
          /\ file.state = "ok" => durable # None /\ file.data = durable[1]
          /\ memory_store' # <<>> => memory_store' = durable[1]
          /\ ret'.text \in LoadTexts
          /\ ret'.text = "Loaded N memory entries." <=> (file.state = "ok" /\ call'.readOk)
          /\ ret'.text = "Created new memory store." <=> file.state = "missing"
          /\ ret'.text = "Loaded N memory entries." =>
                ret'.items[1].entries = Len(memory_store')
      ]_vars
C15_Witness ==
    /\ call.op = "restart"
    /\ ret.text = "Loaded N memory entries."
    /\ Len(memory_store) = 1
    /\ saveAttempts = 2
    /\ saveFailures = 1
    /\ durable = Some(memory_store)

\* ---- C16 ----
\* C16: every step, whether a tool call, a failed write, a failed append or a
\* restart, leaves the records already in the log file where they were and
\* unchanged; a step adds at most one record, at the end, and that record
\* belongs to the call just made, which is later than the calls of all the
\* records before it.
C16_LogAppendOnly ==
    [][ /\ Len(log') >= Len(log)
        /\ SubSeq(log', 1, Len(log)) = log
        /\ Len(log') <= Len(log) + 1
        /\ Len(log') > Len(log) =>
              /\ log'[Len(log')].operation_id = calls
              /\ log'[Len(log')].operation = call'.op
              /\ \A i \in 1..Len(log) :
                    /\ log[i].operation_id < log'[Len(log')].operation_id
                    /\ log[i].timestamp <= log'[Len(log')].timestamp
      ]_vars
C16_Witness ==
    /\ Len(log) = 2
    /\ restarts = 1
    /\ saveFailures = 1
    /\ log[1].timestamp < log[2].timestamp
    /\ log[1].operation = "create"

\* ---- C17 ----
\* what the call c does from the current state when its append to the log
\* file succeeds, for a clock advance d and a snapshot write outcome o
OutcomeWhenLogged(c, d, o) ==
    CASE c.op = "list" -> ListOutcome(TRUE)
      [] c.op = "create" -> CreateOutcome(c.content[1], d, o, TRUE)
      [] c.op = "update" -> UpdateOutcome(c.key[1], c.content[1], o, TRUE)
      [] c.op = "read" -> ReadOutcome(c.key[1], TRUE)
      [] c.op = "delete" -> DeleteOutcome(c.key[1], o, TRUE)
\* C17: a tool call whose append to the log file fails returns normally, and
\* the string it returns, the dict after it and the snapshot file after it are
\* those of the same call made from the same state with the same snapshot
\* write outcome and an append that succeeds.
C17_LogFailureIsInvisible ==
    [][ (calls' = calls + 1 /\ logFailures' = logFailures + 1) =>
          /\ log' = log
          /\ ret' # RaisedReply
          /\ \E d \in 0..1, o \in SaveOutcomes :
                LET twin == OutcomeWhenLogged(call', d, o)
                IN /\ now' = now + d
                   /\ memory_store' = twin.store
                   /\ file' = twin.file
                   /\ ret' = twin.ret
                   /\ saveAttempts' = saveAttempts + twin.attempts
      ]_vars
C17_Witness ==
    /\ logFailures = 1
    /\ log = <<>>
    /\ calls = 1
    /\ call.op = "create"
    /\ ret.text = "Saved:"
    /\ file = [state |-> "ok", data |-> memory_store]

\* ---- C18 ----
\* C18: a create, update or delete that changes the dict first changes the
\* dict, then attempts the snapshot write, then appends its record to the log.
C18_MutateSaveLog ==
    (call.op \in Mutations /\ ret.text \notin NotFoundTexts) =>
        trace = <<"mutate", "save", "log">>

\* ---- C19 ----
EntryAt(d, k) == IF Has(d, k) THEN Some(Get(d, k)) ELSE None
\* C19: the record a call appends carries the entries the dict held and holds
\* under the key of the call: for a create, no before and the entry now
\* stored as after; for an update, the entry stored before the call as before
\* and the entry stored after it as after, with content_changed true exactly
\* when their contents differ; for a delete, the removed entry as before and
\* no after; for an update or delete of a missing key, a list and a read,
\* neither.
C19_RecordSnapshots ==
    [][ Len(log') > Len(log) =>
          LET r == log'[Len(log')]
          IN /\ StepOf("create") =>
                   /\ r.key = Some(StepKey)
                   /\ r.before = None
                   /\ r.after = EntryAt(memory_store', StepKey)
                   /\ r.after # None
             /\ StepOf("update") =>
                   /\ r.key = Some(StepKey)
                   /\ r.before = EntryAt(memory_store, StepKey)
                   /\ r.after = IF Has(memory_store, StepKey)
                                THEN EntryAt(memory_store', StepKey) ELSE None
                   /\ Has(memory_store, StepKey) =>
                         r.metadata.content_changed =
                            (r.before[1].content # r.after[1].content)
             /\ StepOf("delete") =>
                   /\ r.key = Some(StepKey)
                   /\ r.before = EntryAt(memory_store, StepKey)
                   /\ r.after = None
                   /\ ~Has(memory_store', StepKey)
             /\ (StepOf("list") \/ StepOf("read")) =>
                   r.before = None /\ r.after = None
      ]_vars
C19_Witness ==
    /\ Len(log) = 2
    /\ log[1].operation = "create"
    /\ log[2].operation = "update"
    /\ log[2].before = log[1].after
    /\ log[2].after = EntryAt(memory_store, CallKey)
    /\ log[2].metadata.content_changed

\* ---- C20 ----
LastGood == IF durable = None THEN <<>> ELSE durable[1]
\* C20: after a restart that could read the snapshot file, the dict is the
\* dict as it was at the last snapshot write that succeeded, or empty when no
\* write has succeeded, whichever writes have failed since.
C20_FailedWriteKeepsLastSnapshot ==
    (call.op = "restart" /\ call.readOk) => memory_store = LastGood

====
